---- MODULE Spec2Model ----
(***************************************************************************)
(* Usage<U, T>: a wrapper holding one payload `data: T` and a zero-size    *)
(* marker PhantomData<U>.  Every trait implementation forwards to the      *)
(* payload.  The generic parameter T is instantiated per behaviour with    *)
(* one of three payload types; U ranges over two marker types.             *)
(*                                                                         *)
(*   VecU8     Vec<u8>          Eq, Ord, Hash, Default, FromIterator, ...   *)
(*   VecF32    Vec<f32>         PartialEq / PartialOrd only (NaN)           *)
(*   RcCellU8  Rc<Cell<u8>>     a shared-ownership payload: the payload    *)
(*                              value is a handle to a heap cell            *)
(***************************************************************************)
EXTENDS Integers, Sequences, FiniteSets, TLC

VARIABLES T, slots, heap, direct, dheap, clones, ret

vars == <<T, slots, heap, direct, dheap, clones, ret>>

\* Longest Vec payload and longest iterator the model feeds in.
MaxLen == 2

PayloadTypes == {"VecU8", "VecF32", "RcCellU8"}
Markers == {"Window", "Surface"}
\* The caller's wrapper variables, and the heap cells Rc::new can hand out.
Slots == {"w1", "w2"}
Cells == {"c1", "c2"}

\* f32's NaN among the element values (the u8 / f32 values are 0 and 1).
NaN == -1
U8 == {0, 1}
F32 == {0, NaN}

IsVec == T \in {"VecU8", "VecF32"}
IsRc == T = "RcCellU8"
Elems == IF T = "VecF32" THEN F32 ELSE U8

SeqsUpTo(S, n) == UNION {[1..k -> S] : k \in 0..n}

\* A moved-from / not yet bound variable.
Moved == [moved |-> TRUE]
IsLive(sl, s) == "data" \in DOMAIN sl[s]
EmptyHeap == [c \in {} |-> 0]

(***************************************************************************)
(* The payload type's own trait implementations (the `T: Trait` bounds).   *)
(* `h` is the heap holding the cells of Rc payloads; `v` is a payload      *)
(* value: a sequence of elements (Vec) or a cell of `h` (Rc).              *)
(***************************************************************************)

\* What the payload holds: the elements of a Vec, the content of the cell.
Obs(h, v) == IF IsRc THEN <<h[v]>> ELSE v

ElemEq(x, y) == x # NaN /\ y # NaN /\ x = y

ElemPartialCmp(x, y) ==
    IF x = NaN \/ y = NaN THEN "None"
    ELSE IF x < y THEN "Less"
    ELSE IF x > y THEN "Greater"
    ELSE "Equal"

ElemCmp(x, y) == IF x < y THEN "Less" ELSE IF x > y THEN "Greater" ELSE "Equal"

LenCmp(a, b) == ElemCmp(Len(a), Len(b))

\* Lexicographic comparison of slices: the first non-equal element decides.
RECURSIVE SlicePartialCmp(_, _)
SlicePartialCmp(a, b) ==
    IF a = <<>> \/ b = <<>> THEN LenCmp(a, b)
    ELSE LET c == ElemPartialCmp(Head(a), Head(b))
         IN IF c = "Equal" THEN SlicePartialCmp(Tail(a), Tail(b)) ELSE c

RECURSIVE SliceCmp(_, _)
SliceCmp(a, b) ==
    IF a = <<>> \/ b = <<>> THEN LenCmp(a, b)
    ELSE LET c == ElemCmp(Head(a), Head(b))
         IN IF c = "Equal" THEN SliceCmp(Tail(a), Tail(b)) ELSE c

\* T: PartialEq
T_eq(h, a, b) ==
    LET x == Obs(h, a)
        y == Obs(h, b)
    IN Len(x) = Len(y) /\ \A i \in 1..Len(x) : ElemEq(x[i], y[i])

\* T: PartialOrd
T_partial_cmp(h, a, b) == SlicePartialCmp(Obs(h, a), Obs(h, b))

\* T: Ord (Vec<u8>, Rc<Cell<u8>>)
T_cmp(h, a, b) == SliceCmp(Obs(h, a), Obs(h, b))

\* T: Hash (Vec<u8>): the hasher is fed the length prefix, then the bytes.
\* A hasher state is the transcript of what has been written to it.
T_hash(h, v, state) == state \o <<Len(v)>> \o v

\* T: Clone.  A Vec is copied element by element; an Rc hands out the same cell.
T_clone(h, v) == IF IsRc THEN v ELSE [i \in 1..Len(v) |-> v[i]]

\* The cell Rc::new allocates: one that no handle points to.
FreshCell(h) == CHOOSE c \in Cells \ DOMAIN h : TRUE

\* A payload expression handed to a constructor: a Vec value, or
\* Rc::new(Cell::new(x)).  Yields the heap afterwards and the payload value.
Inputs == IF IsRc THEN U8 ELSE SeqsUpTo(Elems, MaxLen)
T_new(h, x) ==
    IF IsRc THEN [h |-> h @@ (FreshCell(h) :> x), v |-> FreshCell(h)]
    ELSE [h |-> h, v |-> x]

\* T: Default.  Vec::new(), Rc::new(Cell::new(0)).
T_default(h) == IF IsRc THEN T_new(h, 0) ELSE T_new(h, <<>>)

\* T: FromIterator<V>.  Vec pushes the items in iteration order.
RECURSIVE T_from_iter(_)
T_from_iter(iter) ==
    IF iter = <<>> THEN <<>> ELSE <<Head(iter)>> \o T_from_iter(Tail(iter))

\* The payload type's own reading and writing methods.
ReadOps == IF IsRc THEN {"get"} ELSE {"len", "to_vec"}
WriteOps ==
    IF IsRc THEN {[k |-> "set", x |-> x] : x \in U8}
    ELSE {[k |-> "push", x |-> x] : x \in Elems}
         \cup {[k |-> "pop", x |-> 0], [k |-> "clear", x |-> 0]}

T_read(h, v, rop) == IF rop = "len" THEN <<Len(v)>> ELSE Obs(h, v)

T_write(h, v, wop) ==
    CASE wop.k = "set" -> [h |-> [h EXCEPT ![v] = wop.x], v |-> v]
      [] wop.k = "push" -> [h |-> h, v |-> Append(v, wop.x)]
      [] wop.k = "pop" ->
            [h |-> h, v |-> IF v = <<>> THEN v ELSE SubSeq(v, 1, Len(v) - 1)]
      [] wop.k = "clear" -> [h |-> h, v |-> <<>>]

\* push is taken only below the model's length bound.
WriteFits(v, wop) == wop.k = "push" => Len(v) < MaxLen

(***************************************************************************)
(* Debug formatting.  A rendering is a sequence of characters.  `alt` is   *)
(* the formatter's alternate flag: FALSE for {:?}, TRUE for {:#?}.         *)
(***************************************************************************)

S_Usage == <<"U", "s", "a", "g", "e">>
S_data == <<"d", "a", "t", "a">>
S_phantom == <<"_", "p", "h", "a", "n", "t", "o", "m">>
S_PhantomData == <<"P", "h", "a", "n", "t", "o", "m", "D", "a", "t", "a", "<">>
S_Cell == <<"C", "e", "l", "l">>
S_value == <<"v", "a", "l", "u", "e">>
Pad == <<" ", " ", " ", " ">>

\* std::any::type_name::<U>()
type_name(U) == IF U = "Window" THEN <<"a", "p", "p", ":", ":", "W", "i", "n", "d", "o", "w">> ELSE <<"a", "p", "p", ":", ":", "S", "u", "r", "f", "a", "c", "e">>

\* The adapter pretty printing writes through: every line is indented.
RECURSIVE PadAdapter(_, _)
PadAdapter(str, on_newline) ==
    IF str = <<>> THEN <<>>
    ELSE (IF on_newline THEN Pad ELSE <<>>) \o <<Head(str)>>
         \o PadAdapter(Tail(str), Head(str) = "\n")

\* Formatter::debug_struct(name).field(..).field(..).finish()
RECURSIVE PlainFields(_)
PlainFields(fields) ==
    IF fields = <<>> THEN <<>>
    ELSE Head(fields).name \o <<":", " ">> \o Head(fields).value
         \o (IF Len(fields) > 1 THEN <<",", " ">> ELSE <<>>)
         \o PlainFields(Tail(fields))

RECURSIVE PrettyFields(_)
PrettyFields(fields) ==
    IF fields = <<>> THEN <<>>
    ELSE PadAdapter(Head(fields).name \o <<":", " ">> \o Head(fields).value
                    \o <<",", "\n">>, TRUE)
         \o PrettyFields(Tail(fields))

DebugStruct(name, fields, alt) ==
    IF alt THEN name \o <<" ", "{", "\n">> \o PrettyFields(fields) \o <<"}">>
    ELSE name \o <<" ", "{", " ">> \o PlainFields(fields) \o <<" ", "}">>

\* <String as Debug>: the text between double quotes.
StrDebug(str) == <<"\"">> \o str \o <<"\"">>

\* <u8 as Debug>, <f32 as Debug>
ElemDebug(x) ==
    IF T = "VecF32" THEN (IF x = NaN THEN <<"N", "a", "N">> ELSE <<"0", ".", "0">>)
    ELSE (IF x = 0 THEN <<"0">> ELSE <<"1">>)

\* Formatter::debug_list().entries(..).finish()
RECURSIVE PlainEntries(_)
PlainEntries(v) ==
    IF v = <<>> THEN <<>>
    ELSE ElemDebug(Head(v)) \o (IF Len(v) > 1 THEN <<",", " ">> ELSE <<>>)
         \o PlainEntries(Tail(v))

RECURSIVE PrettyEntries(_)
PrettyEntries(v) ==
    IF v = <<>> THEN <<>>
    ELSE PadAdapter(ElemDebug(Head(v)) \o <<",", "\n">>, TRUE)
         \o PrettyEntries(Tail(v))

DebugList(v, alt) ==
    IF alt /\ v # <<>> THEN <<"[", "\n">> \o PrettyEntries(v) \o <<"]">>
    ELSE <<"[">> \o PlainEntries(v) \o <<"]">>

\* T: Debug.  Rc<Cell<u8>> renders as its Cell { value: .. }.
T_fmt(h, v, alt) ==
    IF IsRc
    THEN DebugStruct(S_Cell, <<[name |-> S_value, value |-> ElemDebug(h[v])]>>, alt)
    ELSE DebugList(v, alt)

(***************************************************************************)
(* Usage<U, T> and its trait implementations.  PhantomData<U> has no       *)
(* runtime value: the field `phantom` holds the type parameter U.          *)
(***************************************************************************)

\* A slip: the marker is set and the payload left at its default.
as_usage_dropping(U, data) == [data |-> IF IsRc THEN data ELSE <<>>, phantom |-> U]

\* AsUsage::as_usage
as_usage(U, data) == [data |-> data, phantom |-> U]

\* A slip: the payload rendered with a fresh {:?}, the formatter's flags lost.
fmt_plain_data(h, w, alt) ==
    DebugStruct(S_Usage,
                <<[name |-> S_data, value |-> T_fmt(h, w.data, FALSE)],
                  [name |-> S_phantom,
                   value |-> StrDebug(S_PhantomData \o type_name(w.phantom) \o <<">">>)]>>,
                alt)

\* impl Debug
fmt(h, w, alt) ==
    DebugStruct(S_Usage,
                <<[name |-> S_data, value |-> T_fmt(h, w.data, alt)],
                  [name |-> S_phantom,
                   value |-> StrDebug(S_PhantomData \o type_name(w.phantom) \o <<">">>)]>>,
                alt)

\* A slip: a payload other than T's default.
default_nonempty(U, h) ==
    LET d == T_new(h, IF IsRc THEN 1 ELSE <<0>>)
    IN [h |-> d.h, w |-> [data |-> d.v, phantom |-> U]]

\* impl Default: yields the heap afterwards and the wrapper.
default(U, h) ==
    LET d == T_default(h) IN [h |-> d.h, w |-> [data |-> d.v, phantom |-> U]]

\* A slip: the clone starts from a default payload instead of a copy.
clone_empty(h, w) == [data |-> IF IsRc THEN w.data ELSE <<>>, phantom |-> w.phantom]

\* impl Clone
clone(h, w) == [data |-> T_clone(h, w.data), phantom |-> w.phantom]

\* A slip: identity of the payloads instead of T's own eq.
eq_identity(h, a, b) == a.data = b.data

\* impl PartialEq
eq(h, a, b) == T_eq(h, a.data, b.data)

\* A slip: the operands swapped.
partial_cmp_swapped(h, a, b) == T_partial_cmp(h, b.data, a.data)

\* impl PartialOrd
partial_cmp(h, a, b) == T_partial_cmp(h, a.data, b.data)

\* impl Ord
cmp(h, a, b) == T_cmp(h, a.data, b.data)

\* A slip: the elements fed to the hasher without T's length prefix.
hash_elements(h, w, state) == state \o w.data

\* impl Hash
hash(h, w, state) == T_hash(h, w.data, state)

\* impl From<T>
from(U, t) == as_usage(U, t)

\* A slip: the items collected in reverse.
from_iter_reversed(U, iter) ==
    as_usage(U, T_from_iter([i \in 1..Len(iter) |-> iter[Len(iter) + 1 - i]]))

\* impl FromIterator<V>
from_iter(U, iter) == as_usage(U, T_from_iter(iter))

\* impl Borrow / BorrowMut / Deref / DerefMut: a reference is the place it
\* points to, a field of one of the caller's variables.
borrow(s) == [slot |-> s, field |-> "data"]
borrow_mut(s) == [slot |-> s, field |-> "data"]
deref(s) == [slot |-> s, field |-> "data"]
\* A slip: a reference to a temporary copy of the payload.
deref_mut_copy(s) == [slot |-> s, field |-> "tmp"]

deref_mut(s) == [slot |-> s, field |-> "data"]

\* Usage::into_inner
into_inner(w) == w.data

\* Reading and writing through a reference.  A reference to anything but a
\* field of the variable points to a temporary: writes to it are dropped.
Load(sl, p) == sl[p.slot].data
Store(sl, p, v) ==
    IF p.field \in DOMAIN sl[p.slot] THEN [sl EXCEPT ![p.slot][p.field] = v] ELSE sl

\* Dropping the last handle to a cell frees the cell.
Gc(sl, h) ==
    IF IsRc
    THEN [c \in {c \in DOMAIN h : \E s \in Slots : IsLive(sl, s) /\ sl[s].data = c}
            |-> h[c]]
    ELSE h

(***************************************************************************)
(* The caller.  `slots` are its Usage<U, T> variables and `heap` their     *)
(* heap; `direct` and `dheap` are the same program run on the bare         *)
(* payloads, every call made on T itself.  `ret` is the last call, with    *)
(* what it returned through the wrapper (w) and on the bare payload (d).   *)
(* `clones` pairs a wrapper with the clone taken from it.                  *)
(***************************************************************************)

HasherStates == {<<>>, <<1>>}
NoPrev == [op |-> "other", slot |-> "none"]
Unpaired(s) == {c \in clones : s \notin c}

Init ==
    /\ T \in PayloadTypes
    /\ slots = [s \in Slots |-> Moved]
    /\ heap = EmptyHeap
    /\ direct = [s \in Slots |-> Moved]
    /\ dheap = EmptyHeap
    /\ clones = {}
    /\ ret = [op |-> "init", slot |-> "none"]

\* let s = U::as_usage(x);
AsUsage(s, U, x) ==
    /\ ~IsLive(slots, s)
    /\ LET p == T_new(heap, x)
           q == T_new(dheap, x)
       IN /\ slots' = [slots EXCEPT ![s] = as_usage(U, p.v)]
          /\ heap' = p.h
          /\ direct' = [direct EXCEPT ![s] = [data |-> q.v]]
          /\ dheap' = q.h
          /\ ret' = [op |-> "as_usage", slot |-> s, U |-> U, v |-> p.v, x |-> x]
    /\ UNCHANGED <<T, clones>>

\* let s: Usage<U, T> = x.into();
From(s, U, x) ==
    /\ ~IsLive(slots, s)
    /\ LET p == T_new(heap, x)
           q == T_new(dheap, x)
       IN /\ slots' = [slots EXCEPT ![s] = from(U, p.v)]
          /\ heap' = p.h
          /\ direct' = [direct EXCEPT ![s] = [data |-> q.v]]
          /\ dheap' = q.h
          /\ ret' = [op |-> "from", slot |-> s, U |-> U, v |-> p.v, x |-> x]
    /\ UNCHANGED <<T, clones>>

\* let s: Usage<U, T> = iter.collect();
FromIter(s, U, iter) ==
    /\ IsVec
    /\ ~IsLive(slots, s)
    /\ slots' = [slots EXCEPT ![s] = from_iter(U, iter)]
    /\ direct' = [direct EXCEPT ![s] = [data |-> T_from_iter(iter)]]
    /\ ret' = [op |-> "from_iter", slot |-> s, U |-> U, iter |-> iter]
    /\ UNCHANGED <<T, heap, dheap, clones>>

\* let s = Usage::<U, T>::default();
Default(s, U) ==
    /\ ~IsLive(slots, s)
    /\ LET p == default(U, heap)
           q == T_default(dheap)
       IN /\ slots' = [slots EXCEPT ![s] = p.w]
          /\ heap' = p.h
          /\ direct' = [direct EXCEPT ![s] = [data |-> q.v]]
          /\ dheap' = q.h
          /\ ret' = [op |-> "default", slot |-> s, U |-> U]
    /\ UNCHANGED <<T, clones>>

\* let dst = src.clone();
Clone(src, dst) ==
    /\ IsLive(slots, src)
    /\ ~IsLive(slots, dst)
    /\ slots' = [slots EXCEPT ![dst] = clone(heap, slots[src])]
    /\ direct' = [direct EXCEPT ![dst] = [data |-> T_clone(dheap, direct[src].data)]]
    /\ clones' = clones \cup {{src, dst}}
    /\ ret' = [op |-> "clone", slot |-> dst, src |-> src, before |-> slots[src],
               obs |-> Obs(heap, slots[src].data)]
    /\ UNCHANGED <<T, heap, dheap>>

\* A call of one of T's reading methods on the reference p into s.
ReadVia(s, p, via, rop) ==
    /\ IsLive(slots, s)
    /\ ret' = [op |-> "read", slot |-> s, via |-> via, rop |-> rop,
               w |-> T_read(heap, Load(slots, p), rop),
               d |-> T_read(dheap, direct[s].data, rop)]
    /\ UNCHANGED <<T, slots, heap, direct, dheap, clones>>

\* A call of one of T's writing methods on the mutable reference p into s.
WriteVia(s, p, via, wop) ==
    /\ IsLive(slots, s)
    /\ WriteFits(slots[s].data, wop)
    /\ LET r == T_write(heap, Load(slots, p), wop)
           q == T_write(dheap, direct[s].data, wop)
       IN /\ slots' = Store(slots, p, r.v)
          /\ heap' = r.h
          /\ direct' = [direct EXCEPT ![s] = [data |-> q.v]]
          /\ dheap' = q.h
    /\ ret' = [op |-> "write", slot |-> s, via |-> via, wop |-> wop,
               others |-> [t \in Slots \ {s} |->
                              IF IsLive(slots, t) THEN Obs(heap, slots[t].data)
                              ELSE <<>>]]
    /\ UNCHANGED <<T, clones>>

Deref(s, rop) == ReadVia(s, deref(s), "deref", rop)
Borrow(s, rop) == ReadVia(s, borrow(s), "borrow", rop)
DerefMut(s, wop) == WriteVia(s, deref_mut(s), "deref_mut", wop)
BorrowMut(s, wop) == WriteVia(s, borrow_mut(s), "borrow_mut", wop)

\* s.into_inner(): the wrapper is consumed; the payload returned is a
\* temporary, dropped at the end of the statement.
IntoInner(s) ==
    /\ IsLive(slots, s)
    /\ slots' = [slots EXCEPT ![s] = Moved]
    /\ heap' = Gc(slots', heap)
    /\ direct' = [direct EXCEPT ![s] = Moved]
    /\ dheap' = Gc(direct', dheap)
    /\ clones' = Unpaired(s)
    /\ ret' = [op |-> "into_inner", slot |-> s,
               w |-> into_inner(slots[s]),
               wobs |-> Obs(heap, into_inner(slots[s])),
               d |-> direct[s].data,
               dobs |-> Obs(dheap, direct[s].data),
               prev |-> IF ret.slot = s
                           /\ ret.op \in {"as_usage", "from", "default", "write"}
                        THEN ret ELSE NoPrev]
    /\ UNCHANGED T

\* s goes out of scope.
Drop(s) ==
    /\ IsLive(slots, s)
    /\ slots' = [slots EXCEPT ![s] = Moved]
    /\ heap' = Gc(slots', heap)
    /\ direct' = [direct EXCEPT ![s] = Moved]
    /\ dheap' = Gc(direct', dheap)
    /\ clones' = Unpaired(s)
    /\ ret' = [op |-> "drop", slot |-> s]
    /\ UNCHANGED T

\* a == b, which type-checks only between wrappers of the same marker.
Eq(a, b) ==
    /\ IsLive(slots, a) /\ IsLive(slots, b)
    /\ slots[a].phantom = slots[b].phantom
    /\ ret' = [op |-> "eq", slot |-> a, other |-> b,
               w |-> eq(heap, slots[a], slots[b]),
               d |-> T_eq(dheap, direct[a].data, direct[b].data)]
    /\ UNCHANGED <<T, slots, heap, direct, dheap, clones>>

PartialCmp(a, b) ==
    /\ IsLive(slots, a) /\ IsLive(slots, b)
    /\ slots[a].phantom = slots[b].phantom
    /\ ret' = [op |-> "partial_cmp", slot |-> a, other |-> b,
               w |-> partial_cmp(heap, slots[a], slots[b]),
               d |-> T_partial_cmp(dheap, direct[a].data, direct[b].data)]
    /\ UNCHANGED <<T, slots, heap, direct, dheap, clones>>

\* f32 is not Ord.
Cmp(a, b) ==
    /\ T # "VecF32"
    /\ IsLive(slots, a) /\ IsLive(slots, b)
    /\ slots[a].phantom = slots[b].phantom
    /\ ret' = [op |-> "cmp", slot |-> a, other |-> b,
               w |-> cmp(heap, slots[a], slots[b]),
               d |-> T_cmp(dheap, direct[a].data, direct[b].data)]
    /\ UNCHANGED <<T, slots, heap, direct, dheap, clones>>

\* s.hash(&mut hasher), the hasher being in `state`.  Neither f32 nor Cell is Hash.
Hash(s, state) ==
    /\ T = "VecU8"
    /\ IsLive(slots, s)
    /\ ret' = [op |-> "hash", slot |-> s, state |-> state,
               w |-> hash(heap, slots[s], state),
               d |-> T_hash(dheap, direct[s].data, state)]
    /\ UNCHANGED <<T, slots, heap, direct, dheap, clones>>

\* format!("{:?}", s) and format!("{:#?}", s)
Fmt(s, alt) ==
    /\ IsLive(slots, s)
    /\ ret' = [op |-> "fmt", slot |-> s, alt |-> alt,
               w |-> fmt(heap, slots[s], alt),
               d |-> T_fmt(dheap, direct[s].data, alt)]
    /\ UNCHANGED <<T, slots, heap, direct, dheap, clones>>

Next ==
    \/ \E s \in Slots, U \in Markers, x \in Inputs : AsUsage(s, U, x)
    \/ \E s \in Slots, U \in Markers, x \in Inputs : From(s, U, x)
    \/ \E s \in Slots, U \in Markers, iter \in SeqsUpTo(Elems, MaxLen) : FromIter(s, U, iter)
    \/ \E s \in Slots, U \in Markers : Default(s, U)
    \/ \E src \in Slots, dst \in Slots : Clone(src, dst)
    \/ \E s \in Slots, rop \in ReadOps : Deref(s, rop)
    \/ \E s \in Slots, rop \in ReadOps : Borrow(s, rop)
    \/ \E s \in Slots, wop \in WriteOps : DerefMut(s, wop)
    \/ \E s \in Slots, wop \in WriteOps : BorrowMut(s, wop)
    \/ \E s \in Slots : IntoInner(s)
    \/ \E s \in Slots : Drop(s)
    \/ \E a \in Slots, b \in Slots : Eq(a, b)
    \/ \E a \in Slots, b \in Slots : PartialCmp(a, b)
    \/ \E a \in Slots, b \in Slots : Cmp(a, b)
    \/ \E s \in Slots, state \in HasherStates : Hash(s, state)
    \/ \E s \in Slots, alt \in BOOLEAN : Fmt(s, alt)

Spec == Init /\ [][Next]_vars

TypeOK ==
    /\ T \in PayloadTypes
    /\ \A s \in Slots : IsLive(slots, s) => slots[s].phantom \in Markers

(***************************************************************************)
(* Properties.                                                             *)
(***************************************************************************)

Contains(str, part) ==
    \E i \in 0..(Len(str) - Len(part)) : SubSeq(str, i + 1, i + Len(part)) = part

Annotation(U) == S_PhantomData \o type_name(U) \o <<">">>

\* The payload a constructor was given, as Obs shows it.
GivenObs(x) == IF IsRc THEN <<x>> ELSE x

\* C1: into_inner of a wrapper just built by U::as_usage(v) or From::from(v)
\* returns exactly v.
C1_RoundTrip ==
    (ret.op = "into_inner" /\ ret.prev.op \in {"as_usage", "from"})
        => /\ ret.w = ret.prev.v
           /\ ret.wobs = GivenObs(ret.prev.x)

C1_Witness ==
    /\ ret.op = "into_inner"
    /\ ret.prev.op = "from"
    /\ ret.prev.U = "Surface"
    /\ ret.wobs = <<1, 0>>

\* C2: wrap(a) == wrap(b) is a == b as T decides it, and the same under
\* every marker the two wrappers could share.
C2_EqThroughPayload ==
    ret.op = "eq"
        => /\ ret.w = ret.d
           /\ \A U \in Markers :
                 eq(heap, as_usage(U, slots[ret.slot].data),
                    as_usage(U, slots[ret.other].data)) = ret.d

C2_Witness ==
    /\ ret.op = "eq"
    /\ ret.slot # ret.other
    /\ ret.w
    /\ slots[ret.slot].phantom = "Surface"
    /\ Len(Obs(heap, slots[ret.slot].data)) = MaxLen

\* C3: through deref / deref_mut / borrow / borrow_mut every read returns
\* what the same read returns on the bare payload, every write leaves the
\* wrapper's payload as the same write leaves the bare payload, and
\* into_inner returns the bare payload's final value.
C3_TransparentAccess ==
    /\ heap = dheap
    /\ \A s \in Slots :
          /\ IsLive(slots, s) <=> IsLive(direct, s)
          /\ IsLive(slots, s) => slots[s].data = direct[s].data
    /\ ret.op = "read" => ret.w = ret.d
    /\ ret.op = "into_inner" => ret.w = ret.d /\ ret.wobs = ret.dobs

C3_Witness ==
    /\ ret.op = "into_inner"
    /\ ret.prev.op = "write"
    /\ ret.prev.via = "deref_mut"
    /\ ret.wobs = <<1>>

\* C4: partial_cmp and cmp of two wrappers are T's partial_cmp and cmp of
\* the payloads, None included, under every marker.
C4_OrderingDelegates ==
    /\ ret.op = "partial_cmp"
          => /\ ret.w = ret.d
             /\ \A U \in Markers :
                   partial_cmp(heap, as_usage(U, slots[ret.slot].data),
                               as_usage(U, slots[ret.other].data)) = ret.d
    /\ ret.op = "cmp"
          => /\ ret.w = ret.d
             /\ \A U \in Markers :
                   cmp(heap, as_usage(U, slots[ret.slot].data),
                       as_usage(U, slots[ret.other].data)) = ret.d

C4_Witness ==
    /\ ret.op = "partial_cmp"
    /\ ret.slot # ret.other
    /\ ret.w = "None"

\* C5: hashing a wrapper leaves the hasher as hashing the payload does, from
\* every starting state and under every marker; wrappers that compare equal
\* hash equal.
C5_HashIsPayloadHash ==
    ret.op = "hash"
        => /\ ret.w = ret.d
           /\ \A U \in Markers :
                 hash(heap, as_usage(U, slots[ret.slot].data), ret.state) = ret.d
           /\ \A t \in Slots :
                 (IsLive(slots, t) /\ eq(heap, slots[ret.slot], slots[t]))
                     => hash(heap, slots[t], ret.state) = ret.w

C5_Witness ==
    /\ ret.op = "hash"
    /\ ret.state # <<>>
    /\ Len(slots[ret.slot].data) = MaxLen
    /\ \E t \in Slots \ {ret.slot} :
          IsLive(slots, t) /\ eq(heap, slots[ret.slot], slots[t])

\* C6: collecting an iterator into Usage<U, T> gives U::as_usage of the
\* iterator collected into T: the same elements in the same order.
C6_CollectionEquivalence ==
    ret.op = "from_iter"
        => /\ slots[ret.slot] = as_usage(ret.U, direct[ret.slot].data)
           /\ Len(slots[ret.slot].data) = Len(ret.iter)
           /\ \A i \in 1..Len(ret.iter) : slots[ret.slot].data[i] = ret.iter[i]

C6_Witness ==
    /\ ret.op = "from_iter"
    /\ Len(ret.iter) = MaxLen
    /\ ret.iter[1] # ret.iter[MaxLen]

\* C8 as claimed: under {:?} and under {:#?} the rendering of the wrapper
\* contains the rendering of the payload as a contiguous substring, and an
\* annotation naming U.
C8_Original ==
    ret.op = "fmt"
        => /\ Contains(ret.w, ret.d)
           /\ Contains(ret.w, Annotation(slots[ret.slot].phantom))

\* C8 amended: the rendering always contains the annotation naming U; under
\* {:?} it contains the payload's rendering as a contiguous substring; under
\* {:#?} it contains the payload's pretty rendering with every line after
\* the first indented by four more spaces, which is the payload's rendering
\* itself only when that is a single line.
C8_Amended ==
    ret.op = "fmt"
        => /\ Contains(ret.w, Annotation(slots[ret.slot].phantom))
           /\ Contains(ret.w, PadAdapter(ret.d, FALSE))
           /\ (~ret.alt \/ ~Contains(ret.d, <<"\n">>)) => Contains(ret.w, ret.d)
           /\ (ret.alt /\ Contains(ret.d, <<"\n">>)) => ~Contains(ret.w, ret.d)

C8_Witness ==
    /\ ret.op = "fmt"
    /\ ret.alt
    /\ Contains(ret.d, <<"\n">>)
    /\ slots[ret.slot].phantom = "Window"

\* T's default value, as Obs shows it.
DefaultObs == LET d == T_default(EmptyHeap) IN Obs(d.h, d.v)

\* C9: for every marker U, Usage::<U, T>::default() holds T's default value
\* and into_inner of it returns that value.
C9_DefaultEquivalence ==
    /\ ret.op = "default"
          => /\ slots[ret.slot].data = direct[ret.slot].data
             /\ Obs(heap, slots[ret.slot].data) = DefaultObs
    /\ (ret.op = "into_inner" /\ ret.prev.op = "default")
          => ret.w = ret.d /\ ret.wobs = DefaultObs

C9_Witness ==
    /\ ret.op = "into_inner"
    /\ ret.prev.op = "default"
    /\ ret.prev.U = "Surface"

\* What clone returns: the marker of the original, a payload equal to the
\* original's, the original left as it was.
CloneResult ==
    ret.op = "clone"
        => /\ slots[ret.slot].phantom = ret.before.phantom
           /\ Obs(heap, slots[ret.slot].data) = ret.obs
           /\ slots[ret.src] = ret.before
           /\ Obs(heap, slots[ret.src].data) = ret.obs

\* A write to one of a wrapper and its clone leaves the payload of the other.
CloneIndependent ==
    ret.op = "write"
        => \A t \in Slots \ {ret.slot} :
              {t, ret.slot} \in clones
                  => Obs(heap, slots[t].data) = ret.others[t]

====
